---- MODULE Spec2Model ----
(***************************************************************************)
(* Model of the Tuya power monitor: the debounce engine of src/src/logic.py *)
(* (process_state_change) and the polling cycle of src/src/app.py           *)
(* (lambda_handler) with the DynamoDB state store of src/src/state_store.py.*)
(*                                                                         *)
(* Python values are represented as follows:                               *)
(*   Optional[bool]   "None" | "True" | "False"                            *)
(*   Optional[float]  NoTs (= None) or a clock value 0..MaxTime             *)
(*   dict             a record whose DOMAIN is the dict's key set          *)
(***************************************************************************)
EXTENDS Integers, Sequences, FiniteSets, TLC

\* ---------------------------------------------------------------- bounds
MaxThreshold == 3
MaxDelay == 2
MaxTime == 4
MaxStep == 2
MaxStreak == 5
MaxCycles == 5
MaxOverlapCycles == 3

\* ------------------------------------------------------------ basic values
None == "None"
NoTs == -1
Bool == {"True", "False"}
OptBool == {None} \cup Bool

Min(a, b) == IF a <= b THEN a ELSE b

\* logic.py DebounceState: the dataclass with its defaults
DebounceState ==
  [ last_confirmed_online    |-> None,
    last_observed_online     |-> None,
    streak                   |-> 0,
    last_change_ts           |-> NoTs,
    last_message_ts          |-> NoTs,
    pending_change_since     |-> NoTs,
    first_observed_change_ts |-> NoTs ]

VARIABLES
  state,                      \* the DebounceState the next call receives as prev_state
  prev_state,                 \* prev_state argument of the latest call
  current_online,             \* observation of the latest call (None before the first)
  should_notify,              \* second component returned by the latest call
  now,                        \* wall clock value read by the latest call
  debounce_threshold,         \* fixed along a call sequence
  confirmation_delay_seconds, \* fixed along a call sequence
  called,                     \* TRUE once process_state_change has been called
  fresh,                      \* TRUE iff the sequence started from DebounceState()
  gBase,                      \* history: confirmed value of the latest state with observed = confirmed
  gRun,                       \* history: contrary observations fed since that state
  trail,                      \* history: length of the trailing run of equal observations
  reached,                    \* history: some trailing run has had length >= threshold
  since_confirm,              \* history: same-observation calls since the latest confirming call
  confirm_obs,                \* history: observation of the latest confirming call
  thr_ts,                     \* history: clock of the call where the trailing run reached the threshold
  cancelled_pcs,              \* history: pending_change_since dropped by the latest reverting call
  sustained,                  \* the value every call feeds in a sustained run (None otherwise)
  summary,                    \* format_state_summary of the state returned by the latest call
  heap,                       \* objects of the latest call: the argument and the returned state
  notified,                   \* history: confirmed value of the latest notifications
  table,                      \* DynamoDB table: the set of stored items (at most one, pk = "state")
  cyc,                        \* per invocation of lambda_handler: position and local variables
  hist,                       \* history across invocations (see IdleHist)
  sent,                       \* messages delivered by TelegramNotifier.send_message, in order
  cycles                      \* number of invocations started so far

vars == << state, prev_state, current_online, should_notify, now,
           debounce_threshold, confirmation_delay_seconds, called, fresh,
           gBase, gRun, trail, reached, since_confirm, confirm_obs,
           thr_ts, cancelled_pcs, sustained, summary, heap, notified,
           table, cyc, sent, cycles, hist >>

engineVars == << state, prev_state, current_online, should_notify,
                 called, gBase, gRun, trail, reached, since_confirm, confirm_obs,
                 thr_ts, cancelled_pcs, summary, heap, notified >>

cycleVars == << table, cyc, sent, cycles, hist >>

\* ------------------------------------------------------------ the engine
\* Faulty variants of the observation tracking, used to validate the properties
TrackObservation_NoCap(prev, cur, threshold, t) ==
  IF cur = prev.last_observed_online
  THEN [prev EXCEPT !.streak = prev.streak + 1]
  ELSE [prev EXCEPT !.last_observed_online = cur,
                    !.streak = 1,
                    !.first_observed_change_ts = t,
                    !.pending_change_since =
                       IF prev.pending_change_since # NoTs THEN NoTs ELSE @]

TrackObservation_KeepPending(prev, cur, threshold, t) ==
  IF cur = prev.last_observed_online
  THEN [prev EXCEPT !.streak = Min(prev.streak + 1, threshold + 1)]
  ELSE [prev EXCEPT !.last_observed_online = cur,
                    !.streak = 1,
                    !.first_observed_change_ts = t]

TrackObservation_ResetConfirmed(prev, cur, threshold, t) ==
  IF cur = prev.last_observed_online
  THEN [prev EXCEPT !.streak = Min(prev.streak + 1, threshold + 1)]
  ELSE [prev EXCEPT !.last_confirmed_online = None,
                    !.last_observed_online = cur,
                    !.streak = 1,
                    !.first_observed_change_ts = t,
                    !.pending_change_since =
                       IF prev.pending_change_since # NoTs THEN NoTs ELSE @]

TrackObservation_ResetToZero(prev, cur, threshold, t) ==
  IF cur = prev.last_observed_online
  THEN [prev EXCEPT !.streak = Min(prev.streak + 1, threshold + 1)]
  ELSE [prev EXCEPT !.last_observed_online = cur,
                    !.streak = 0,
                    !.first_observed_change_ts = t,
                    !.pending_change_since =
                       IF prev.pending_change_since # NoTs THEN NoTs ELSE @]

TrackObservation_NoFirstObserved(prev, cur, threshold, t) ==
  IF cur = prev.last_observed_online
  THEN [prev EXCEPT !.streak = Min(prev.streak + 1, threshold + 1)]
  ELSE [prev EXCEPT !.last_observed_online = cur,
                    !.streak = 1,
                    !.pending_change_since =
                       IF prev.pending_change_since # NoTs THEN NoTs ELSE @]

TrackObservation_StampChange(prev, cur, threshold, t) ==
  IF cur = prev.last_observed_online
  THEN [prev EXCEPT !.streak = Min(prev.streak + 1, threshold + 1)]
  ELSE [prev EXCEPT !.last_observed_online = cur,
                    !.streak = 1,
                    !.first_observed_change_ts = t,
                    !.last_change_ts = t,
                    !.pending_change_since =
                       IF prev.pending_change_since # NoTs THEN NoTs ELSE @]

\* Faulty variant: the engine works on the object it was given
Alloc_InPlace(arg) == arg

\* logic.py:70-78: new_state = DebounceState(...) is a new object; every later
\* assignment of the function goes to it. arg is the reference of prev_state.
Alloc(arg) == arg + 1

\* logic.py:81-92, observation tracking
TrackObservation(prev, cur, threshold, t) ==
  IF cur = prev.last_observed_online
  THEN [prev EXCEPT !.streak = Min(prev.streak + 1, threshold + 1)]
  ELSE [prev EXCEPT !.last_observed_online = cur,
                    !.streak = 1,
                    !.first_observed_change_ts = t,
                    !.pending_change_since =
                       IF prev.pending_change_since # NoTs THEN NoTs ELSE @]

\* Faulty variants of the change-detection guard
IsCandidate_OffByOne(s, threshold) ==
  /\ s.last_confirmed_online # None
  /\ s.last_observed_online # s.last_confirmed_online
  /\ s.streak >= threshold - 1

IsCandidate_Strict(s, threshold) ==
  /\ s.last_confirmed_online # None
  /\ s.last_observed_online # s.last_confirmed_online
  /\ s.streak > threshold

IsCandidate_NoKnownCheck(s, threshold) ==
  /\ s.last_observed_online # s.last_confirmed_online
  /\ s.streak >= threshold

IsCandidate_NoDiffCheck(s, threshold) ==
  /\ s.last_confirmed_online # None
  /\ s.streak >= threshold

IsCandidate_OnlyOffline(s, threshold) ==
  /\ s.last_confirmed_online # None
  /\ s.last_observed_online # s.last_confirmed_online
  /\ s.last_observed_online = "False"
  /\ s.streak >= threshold

\* logic.py:98-102, the guard of the change-detection branch
IsCandidate(s, threshold) ==
  /\ s.last_confirmed_online # None
  /\ s.last_observed_online # s.last_confirmed_online
  /\ s.streak >= threshold

\* Faulty variant: the confirmation timer restarts at every call
StampPending_Always(s, t) == [s EXCEPT !.pending_change_since = t]

\* Faulty variant: the candidate is not stamped
StampPending_Skip(s, t) == s

\* logic.py:104-106, start of the confirmation timer
StampPending(s, t) ==
  IF s.pending_change_since = NoTs THEN [s EXCEPT !.pending_change_since = t] ELSE s

\* Faulty variant: the delay has to be exceeded
DelayPassed_Strict(s, t, delay) == t - s.pending_change_since > delay

\* logic.py:109-110, elapsed >= confirmation_delay_seconds
DelayPassed(s, t, delay) == t - s.pending_change_since >= delay

\* Faulty variants of the confirmation
ConfirmChange_KeepConfirmed(s, t) ==
  [s EXCEPT !.last_change_ts = t,
            !.last_message_ts = t,
            !.pending_change_since = NoTs]

ConfirmChange_KeepPending(s, t) ==
  [s EXCEPT !.last_confirmed_online = s.last_observed_online,
            !.last_change_ts = t,
            !.last_message_ts = t]

ConfirmChange_KeepChangeTs(s, t) ==
  [s EXCEPT !.last_confirmed_online = s.last_observed_online,
            !.last_message_ts = t,
            !.pending_change_since = NoTs]

ConfirmChange_NoMessageTs(s, t) ==
  [s EXCEPT !.last_confirmed_online = s.last_observed_online,
            !.last_change_ts = t,
            !.pending_change_since = NoTs]

\* logic.py:112-115, the assignments of a confirmed change
ConfirmChange(s, t) ==
  [s EXCEPT !.last_confirmed_online = s.last_observed_online,
            !.last_change_ts = t,
            !.last_message_ts = t,
            !.pending_change_since = NoTs]

\* logic.py:119, the guard of the initial-state branch
IsInitial(s, threshold) ==
  s.last_confirmed_online = None /\ s.streak >= threshold

\* Faulty variant: the initial confirmation also stamps last_message_ts
ConfirmInitial_StampMessage(s, t) ==
  [s EXCEPT !.last_confirmed_online = s.last_observed_online,
            !.last_change_ts = t,
            !.last_message_ts = t]

\* logic.py:121-124, the initial confirmation
ConfirmInitial(s, t) ==
  [s EXCEPT !.last_confirmed_online = s.last_observed_online,
            !.last_change_ts = t]

\* logic.py:41-126; t is the value of time.time() read at line 68
process_state_change(prev, cur, threshold, delay, t) ==
  LET tracked == TrackObservation(prev, cur, threshold, t) IN
  IF IsCandidate(tracked, threshold)
  THEN LET pending == StampPending(tracked, t) IN
       IF DelayPassed(pending, t, delay)
       THEN [new_state |-> ConfirmChange(pending, t), should_notify |-> TRUE]
       ELSE [new_state |-> pending, should_notify |-> FALSE]
  ELSE IF IsInitial(tracked, threshold)
       THEN [new_state |-> ConfirmInitial(tracked, t), should_notify |-> FALSE]
       ELSE [new_state |-> tracked, should_notify |-> FALSE]

\* Faulty variant: an unknown value is rendered like false
Label_Truthy(b) == IF b = "True" THEN "ON" ELSE "OFF"

\* logic.py:139-152: "ON" if b else "OFF" if b is not None else "UNKNOWN"
Label(b) == IF b = "True" THEN "ON" ELSE IF b # None THEN "OFF" ELSE "UNKNOWN"

\* logic.py:129-154; the f-string is represented by the tuple of its parts
format_state_summary(s) ==
  << "Confirmed: ", Label(s.last_confirmed_online),
     ", Observed: ", Label(s.last_observed_online),
     ", Streak: ", s.streak >>

\* ------------------------------------------------------------ the state store
Procs == {1, 2}

\* A Decimal of boto3 is represented as DecimalBase + its numeric value
DecimalBase == 100
Decimal(v) == DecimalBase + v
IsDecimal(v) == v >= DecimalBase

TsKeys == {"last_change_ts", "last_message_ts", "pending_change_since",
           "first_observed_change_ts"}
NumKeys == TsKeys \cup {"streak"}

\* Faulty variant: a default that assumes the device is confirmed offline
_default_state_AssumeOffline ==
  [ last_confirmed_online |-> "False",
    last_observed_online  |-> None,
    streak                |-> 0,
    last_change_ts        |-> NoTs,
    last_message_ts       |-> NoTs ]

\* state_store.py:60-69
_default_state ==
  [ last_confirmed_online |-> None,
    last_observed_online  |-> None,
    streak                |-> 0,
    last_change_ts        |-> NoTs,
    last_message_ts       |-> NoTs ]

\* state_store.py:71-82; the floats of a state dict are its set timestamps
_serialize_item(item) ==
  [k \in DOMAIN item |->
     IF k \in TsKeys /\ item[k] # NoTs THEN Decimal(item[k]) ELSE item[k]]

\* state_store.py:84-98; value % 1 = 0 for every clock value of the model
_deserialize_item(item) ==
  [k \in DOMAIN item \ {"pk"} |->
     IF k \in NumKeys /\ IsDecimal(item[k]) THEN item[k] - DecimalBase ELSE item[k]]

\* state_store.py:55-58: the item written by save_state(d)
PutItem(d) == _serialize_item([pk |-> "state"] @@ d)

\* state_store.py:34: get_item returns every number attribute as a Decimal
GetItem(item) ==
  [k \in DOMAIN item |->
     IF k \in NumKeys /\ item[k] # NoTs /\ ~IsDecimal(item[k])
     THEN Decimal(item[k]) ELSE item[k]]

\* state_store.py:26-46; readOk = FALSE is a get_item that raises
load_state(tbl, readOk) ==
  IF readOk /\ tbl # {}
  THEN _deserialize_item(GetItem(CHOOSE i \in tbl : TRUE))
  ELSE _default_state

\* logic.py:28-34, app.py:110: DebounceState(**d) accepts only the dataclass
\* fields as keywords and fills the missing ones with the defaults
AcceptsKeys(d) == DOMAIN d \subseteq DOMAIN DebounceState

FromDict(d) ==
  [k \in DOMAIN DebounceState |-> IF k \in DOMAIN d THEN d[k] ELSE DebounceState[k]]

\* ------------------------------------------------------------ the cycle
\* Local variables of one invocation of lambda_handler before it starts; steps
\* (the calls made so far), tuya_raised (get_device_online_status raised),
\* read_outcome (what get_item did), engine_input and engine_output (argument
\* and result of process_state_change), notify_raised, send_raised and
\* save_raised (send_message / put_item raised), saved_arg (the argument of
\* save_state) and table_before (the table when the invocation started) are
\* history fields
IdleCycle ==
  [ pc                |-> "idle",
    test              |-> FALSE,
    prev_state        |-> _default_state,
    device_online     |-> None,
    new_state_dict    |-> DebounceState,
    should_notify     |-> FALSE,
    notification_sent |-> FALSE,
    statusCode        |-> 0,
    error             |-> "",
    steps             |-> << >>,
    tuya_raised       |-> FALSE,
    read_outcome      |-> "",
    engine_input      |-> DebounceState,
    engine_output     |-> DebounceState,
    notify_raised     |-> FALSE,
    send_raised       |-> FALSE,
    save_raised       |-> FALSE,
    saved_arg         |-> DebounceState,
    table_before      |-> {} ]

\* History across invocations: no observation, nothing sent, nothing persisted
IdleHist ==
  [obs       |-> None,      \* the latest value get_device_online_status returned
   sends     |-> 0,         \* state-change messages delivered since obs last changed
   pers      |-> None,      \* the latest boolean last_confirmed_online persisted
   attempted |-> FALSE,     \* send_message was called since pers was persisted
   read_err  |-> FALSE,     \* get_item raised since pers was persisted
   flip      |-> "none",    \* how the latest change of pers came about
   fault     |-> FALSE,     \* the store or the notifier has raised in some invocation
   shadow    |-> DebounceState,  \* while ~fault: the engine applied (clock 0) to the
                                 \* successful observations only
   nf        |-> "none",    \* failed notification of the current observation run:
                            \* "unsaved", or "saved" once its cycle has saved
   retry     |-> "none",    \* send_message was called again for it: "after_unsaved",
                            \* "after_saved"
   overlapped |-> FALSE,    \* an invocation started while another was in flight
   last_saver |-> 0]        \* the invocation whose put_item succeeded last

\* The store or the notifier has raised (state_store.py:44-46, app.py:151-158,
\* app.py:174-183); shadow is only kept while that has not happened
Fault(h) == [h EXCEPT !.fault = TRUE, !.shadow = DebounceState]

\* History of a value returned by get_device_online_status (app.py:93-95)
Observed(h, online, threshold) ==
  LET h1 == IF online = h.obs THEN h
            ELSE [h EXCEPT !.obs = online, !.sends = 0, !.nf = "none"]
  IN [h1 EXCEPT !.shadow =
        IF h.fault THEN @
        ELSE process_state_change(@, online, threshold, 0, 0).new_state]

\* History of a call of send_message for a state change (app.py:143-158)
Attempted(h, ok) ==
  LET h1 == [h EXCEPT !.attempted = TRUE,
                      !.sends = IF ok THEN @ + 1 ELSE @,
                      !.retry = IF h.nf = "saved" THEN "after_saved"
                                ELSE IF h.nf = "unsaved" /\ @ = "none"
                                     THEN "after_unsaved" ELSE @,
                      !.nf = IF ok THEN "none" ELSE "unsaved"]
  IN IF ok THEN h1 ELSE Fault(h1)

\* History of the persisted last_confirmed_online: v is the value a successful
\* put_item (state_store.py:61-63) has just stored
Persisted(h, v) ==
  IF v = None THEN h
  ELSE [h EXCEPT !.pers = v,
                 !.attempted = FALSE,
                 !.read_err = FALSE,
                 !.flip = IF h.pers = None \/ h.pers = v THEN @
                          ELSE IF h.attempted THEN "notified"
                          ELSE IF h.read_err THEN "after_read_error"
                          ELSE "silent"]

\* ------------------------------------------------- call sequences of the engine
\* States a caller may hand to process_state_change (tests build them by hand)
AnyState ==
  [ last_confirmed_online    : OptBool,
    last_observed_online     : OptBool,
    streak                   : 0..MaxStreak,
    last_change_ts           : {NoTs, 0},
    last_message_ts          : {NoTs, 0},
    pending_change_since     : {NoTs, 0},
    first_observed_change_ts : {NoTs, 0} ]

InitFrom(s) ==
  /\ state = s
  /\ prev_state = s
  /\ current_online = None
  /\ should_notify = FALSE
  /\ now = 0
  /\ debounce_threshold \in 1..MaxThreshold
  /\ confirmation_delay_seconds \in 0..MaxDelay
  /\ called = FALSE
  /\ fresh = (s = DebounceState)
  /\ gBase = None
  /\ gRun = 0
  /\ trail = 0
  /\ reached = FALSE
  /\ since_confirm = -1
  /\ confirm_obs = None
  /\ thr_ts = NoTs
  /\ cancelled_pcs = NoTs
  /\ summary = format_state_summary(s)
  /\ heap = [arg |-> 1, ret |-> 1, objs |-> [k \in {1} |-> s]]
  /\ notified = [prev |-> None, last |-> None]
  /\ hist = IdleHist
  /\ table = {}
  /\ cyc = [p \in Procs |-> IdleCycle]
  /\ sent = << >>
  /\ cycles = 0

Init == InitFrom(DebounceState) /\ sustained = None

InitAny == (\E s \in AnyState : InitFrom(s)) /\ sustained = None

\* One call new_state, should_notify = process_state_change(state, cur, ...)
\* with the clock read t; the history variables record the observation sequence.
Feed(cur, t) ==
    LET r == process_state_change(state, cur, debounce_threshold,
                                  confirmation_delay_seconds, t)
        anchored == state.last_confirmed_online # None
                    /\ state.last_observed_online = state.last_confirmed_online
        wBase == IF anchored THEN state.last_confirmed_online ELSE gBase
        wRun == IF anchored THEN 0 ELSE gRun
        newTrail == IF called /\ cur = current_online
                    THEN Min(trail + 1, MaxThreshold + 2) ELSE 1
        confirms == r.new_state.last_confirmed_online # state.last_confirmed_online
    IN
    /\ state' = r.new_state
    /\ prev_state' = state
    /\ current_online' = cur
    /\ should_notify' = r.should_notify
    /\ now' = t
    /\ called' = TRUE
    /\ gBase' = wBase
    /\ gRun' = IF wBase # None /\ cur # wBase
               THEN Min(wRun + 1, MaxThreshold + 2) ELSE wRun
    /\ trail' = newTrail
    /\ reached' = (reached \/ newTrail >= debounce_threshold)
    /\ since_confirm' = IF since_confirm >= 0 /\ cur = confirm_obs
                        THEN Min(since_confirm + 1, 3)
                        ELSE IF confirms THEN 0 ELSE -1
    /\ confirm_obs' = IF since_confirm >= 0 /\ cur = confirm_obs
                      THEN confirm_obs
                      ELSE IF confirms THEN cur ELSE None
    /\ summary' = format_state_summary(r.new_state)
    /\ heap' = [arg  |-> 1,
                ret  |-> Alloc(1),
                objs |-> [k \in {1, Alloc(1)} |->
                            IF k = Alloc(1) THEN r.new_state ELSE state]]
    /\ notified' = [prev |-> notified.last,
                    last |-> IF r.should_notify
                             THEN r.new_state.last_confirmed_online
                             ELSE notified.last]
    /\ thr_ts' = IF newTrail = debounce_threshold THEN t
                 ELSE IF newTrail > debounce_threshold THEN thr_ts ELSE NoTs
    /\ cancelled_pcs' = IF state.pending_change_since # NoTs
                           /\ cur # state.last_observed_online
                        THEN state.pending_change_since ELSE cancelled_pcs
    /\ UNCHANGED << debounce_threshold, confirmation_delay_seconds, fresh, sustained >>
    /\ UNCHANGED cycleVars

\* A call with any observation; the clock does not run backwards
Call ==
  \E cur \in Bool, t \in now..Min(now + MaxStep, MaxTime) : Feed(cur, t)

Next == Call

Spec == Init /\ [][Next]_vars

SpecAny == InitAny /\ [][Next]_vars

\* Sustained runs: from a confirmed state every call feeds the value opposite
\* to the confirmed one and reads a strictly later clock value.  Horizon is
\* late enough for MaxThreshold calls followed by a wait of MaxDelay.
Horizon == MaxThreshold * MaxStep + MaxDelay + MaxStep

Opposite(b) == IF b = "True" THEN "False" ELSE "True"

InitSustained ==
  \E s \in AnyState :
    /\ s.last_confirmed_online \in Bool
    /\ InitFrom(s)
    /\ sustained = Opposite(s.last_confirmed_online)

CallSustained ==
  \E t \in (now + 1)..Min(now + MaxStep, Horizon) : Feed(sustained, t)

NextSustained == CallSustained

SpecSustained ==
  InitSustained /\ [][NextSustained]_vars /\ WF_vars(CallSustained)

\* app.py:19-56, 83-85: an invocation starts; event.get("test") selects test mode
Invoke(p, test) ==
  /\ cyc[p].pc \in {"idle", "done"}
  /\ \A q \in Procs : cyc[q].pc \in {"idle", "done"}
  /\ cycles < MaxCycles
  /\ cycles' = cycles + 1
  /\ cyc' = [cyc EXCEPT ![p] = [IdleCycle EXCEPT
                                  !.pc = IF test THEN "test" ELSE "load",
                                  !.test = test,
                                  !.table_before = table]]
  /\ UNCHANGED << table, sent, now, debounce_threshold,
                  confirmation_delay_seconds, fresh, sustained >>
  /\ UNCHANGED hist
  /\ UNCHANGED engineVars

\* Faulty variant: the test invocation reports success whatever the send did
TestSend_AlwaysSuccess(p, ok) ==
  /\ cyc[p].pc = "test"
  /\ sent' = IF ok THEN Append(sent, [by |-> p, text |-> "test"]) ELSE sent
  /\ cyc' = [cyc EXCEPT ![p].pc = "done",
                        ![p].steps = Append(@, "send_message"),
                        ![p].send_raised = ~ok,
                        ![p].statusCode = 200]
  /\ UNCHANGED << table, cycles, now, debounce_threshold,
                  confirmation_delay_seconds, fresh, sustained >>
  /\ hist' = IF ok THEN hist ELSE Fault(hist)
  /\ UNCHANGED engineVars

\* app.py:55-81: test mode sends one fixed message and returns
TestSend(p, ok) ==
  /\ cyc[p].pc = "test"
  /\ sent' = IF ok THEN Append(sent, [by |-> p, text |-> "test"]) ELSE sent
  /\ cyc' = [cyc EXCEPT ![p].pc = "done",
                        ![p].steps = Append(@, "send_message"),
                        ![p].send_raised = ~ok,
                        ![p].statusCode = IF ok THEN 200 ELSE 500,
                        ![p].error = IF ok THEN "" ELSE "send_failed"]
  /\ UNCHANGED << table, cycles, now, debounce_threshold,
                  confirmation_delay_seconds, fresh, sustained >>
  /\ hist' = IF ok THEN hist ELSE Fault(hist)
  /\ UNCHANGED engineVars

\* app.py:88-90: step 1
LoadState(p, readOk) ==
  /\ cyc[p].pc = "load"
  /\ cyc' = [cyc EXCEPT ![p].pc = "query",
                        ![p].steps = Append(@, "load_state"),
                        ![p].read_outcome = IF ~readOk THEN "error"
                                            ELSE IF table = {} THEN "absent"
                                            ELSE "item",
                        ![p].prev_state = load_state(table, readOk)]
  /\ UNCHANGED << table, sent, cycles, now, debounce_threshold,
                  confirmation_delay_seconds, fresh, sustained >>
  /\ hist' = IF readOk THEN hist ELSE Fault([hist EXCEPT !.read_err = TRUE])
  /\ UNCHANGED engineVars

\* app.py:96-106: the cycle after get_device_online_status has raised
TuyaFailed_TreatAsOffline(c) ==
  [c EXCEPT !.pc = "process",
            !.steps = Append(@, "get_device_online_status"),
            !.device_online = "False"]

TuyaFailed(c) ==
  [c EXCEPT !.pc = "done",
            !.steps = Append(@, "get_device_online_status"),
            !.statusCode = 500,
            !.error = "tuya_api_failed"]

\* app.py:93-95: step 2, the query returns online
QueryDevice(p, online) ==
  /\ cyc[p].pc = "query"
  /\ cyc' = [cyc EXCEPT ![p].pc = "process",
                        ![p].steps = Append(@, "get_device_online_status"),
                        ![p].device_online = online]
  /\ UNCHANGED << table, sent, cycles, now, debounce_threshold,
                  confirmation_delay_seconds, fresh, sustained >>
  /\ hist' = Observed(hist, online, debounce_threshold)
  /\ UNCHANGED engineVars

\* app.py:93-106: step 2, the query raises
QueryFails(p) ==
  /\ cyc[p].pc = "query"
  /\ cyc' = [cyc EXCEPT ![p] = [TuyaFailed(cyc[p]) EXCEPT !.tuya_raised = TRUE]]
  /\ UNCHANGED << table, sent, cycles, now, debounce_threshold,
                  confirmation_delay_seconds, fresh, sustained >>
  /\ UNCHANGED hist
  /\ UNCHANGED engineVars

\* Faulty variant: the state is persisted without the notification step
AfterProcess_SkipNotify(notify) == "save"

\* app.py:122-124, 160-161: the step that follows the engine
AfterProcess(notify) == IF notify THEN "notify" ELSE "save"

\* app.py:108-120: step 3; confirmation_delay_seconds is not passed (default 0).
\* A TypeError of DebounceState(**prev_state) is caught at app.py:174-183.
Process(p) ==
  /\ cyc[p].pc = "process"
  /\ IF AcceptsKeys(cyc[p].prev_state)
     THEN \E t \in now..Min(now + MaxStep, MaxTime) :
            LET r == process_state_change(FromDict(cyc[p].prev_state),
                                          cyc[p].device_online,
                                          debounce_threshold, 0, t)
            IN /\ now' = t
               /\ cyc' = [cyc EXCEPT
                            ![p].pc = AfterProcess(r.should_notify),
                            ![p].steps = Append(@, "process_state_change"),
                            ![p].engine_input = FromDict(cyc[p].prev_state),
                            ![p].engine_output = r.new_state,
                            ![p].new_state_dict = r.new_state,
                            ![p].should_notify = r.should_notify]
     ELSE /\ now' = now
          /\ cyc' = [cyc EXCEPT ![p].pc = "done",
                                ![p].statusCode = 500,
                                ![p].error = "internal_error"]
  /\ UNCHANGED << table, sent, cycles, debounce_threshold,
                  confirmation_delay_seconds, fresh, sustained >>
  /\ UNCHANGED hist
  /\ UNCHANGED engineVars

\* Faulty variant: the two texts are exchanged
Message_Inverted(d) == IF d.last_confirmed_online = "True" THEN "off" ELSE "on"

\* app.py:138-141: the text of the state-change message
Message(d) == IF d.last_confirmed_online = "True" THEN "on" ELSE "off"

\* Faulty variant: a failed notification ends the cycle with an error
NotifyFailed_Abort(c) ==
  [c EXCEPT !.pc = "done",
            !.steps = Append(@, "send_message"),
            !.statusCode = 500,
            !.error = "notification_failed"]

\* app.py:151-158: the cycle after send_message has raised
NotifyFailed(c) ==
  [c EXCEPT !.pc = "save",
            !.steps = Append(@, "send_message"),
            !.notification_sent = FALSE,
            !.new_state_dict = [notify_failed |-> "True"] @@ @]

\* app.py:124-158: step 4
Notify(p, ok) ==
  /\ cyc[p].pc = "notify"
  /\ sent' = IF ok
             THEN Append(sent, [by |-> p, text |-> Message(cyc[p].new_state_dict)])
             ELSE sent
  /\ cyc' = [cyc EXCEPT ![p] =
               IF ok
               THEN [cyc[p] EXCEPT !.pc = "save",
                                   !.steps = Append(@, "send_message"),
                                   !.notification_sent = TRUE]
               ELSE [NotifyFailed(cyc[p]) EXCEPT !.notify_raised = TRUE]]
  /\ UNCHANGED << table, cycles, now, debounce_threshold,
                  confirmation_delay_seconds, fresh, sustained >>
  /\ hist' = Attempted(hist, ok)
  /\ UNCHANGED engineVars

\* Faulty variant: the exception of save_state is swallowed
SaveFailed_Swallowed(c) ==
  [c EXCEPT !.pc = "done",
            !.steps = Append(@, "save_state"),
            !.statusCode = 200]

\* app.py:161, 174-183: the cycle after save_state has raised
SaveFailed(c) ==
  [c EXCEPT !.pc = "done",
            !.steps = Append(@, "save_state"),
            !.statusCode = 500,
            !.error = "internal_error"]

\* app.py:160-183: step 5; writeOk = FALSE is a put_item that raises
Save(p, writeOk) ==
  /\ cyc[p].pc = "save"
  /\ table' = IF writeOk THEN {PutItem(cyc[p].new_state_dict)} ELSE table
  /\ cyc' = [cyc EXCEPT ![p] =
               IF writeOk
               THEN [cyc[p] EXCEPT !.pc = "done",
                                   !.steps = Append(@, "save_state"),
                                   !.saved_arg = cyc[p].new_state_dict,
                                   !.statusCode = 200]
               ELSE [SaveFailed(cyc[p]) EXCEPT
                       !.saved_arg = cyc[p].new_state_dict,
                       !.save_raised = TRUE]]
  /\ UNCHANGED << sent, cycles, now, debounce_threshold,
                  confirmation_delay_seconds, fresh, sustained >>
  /\ hist' = IF writeOk
             THEN [Persisted(hist, cyc[p].new_state_dict.last_confirmed_online)
                     EXCEPT !.last_saver = p,
                            !.nf = IF cyc[p].notify_raised THEN "saved" ELSE @]
             ELSE Fault(hist)
  /\ UNCHANGED engineVars

\* Strictly sequential invocations of the scheduler (one invocation in flight)
InitCycle == Init /\ confirmation_delay_seconds = 0

NextCycle ==
  \/ \E test \in BOOLEAN : Invoke(1, test)
  \/ \E ok \in BOOLEAN : TestSend(1, ok)
  \/ \E readOk \in BOOLEAN : LoadState(1, readOk)
  \/ \E online \in Bool : QueryDevice(1, online)
  \/ QueryFails(1)
  \/ Process(1)
  \/ \E ok \in BOOLEAN : Notify(1, ok)
  \/ \E writeOk \in BOOLEAN : Save(1, writeOk)

SpecCycle == InitCycle /\ [][NextCycle]_vars

\* Invocations that may overlap: nothing in lambda_handler or StateStore keeps
\* a second invocation from starting while one is in flight
\* (app.py:19-56, 83-85). The store, the device query and the notifier work.
InvokeOverlapping(p) ==
  /\ cyc[p].pc \in {"idle", "done"}
  /\ cycles < MaxOverlapCycles
  /\ cycles' = cycles + 1
  /\ cyc' = [cyc EXCEPT ![p] = [IdleCycle EXCEPT !.pc = "load",
                                                 !.table_before = table]]
  /\ hist' = [hist EXCEPT !.overlapped =
                @ \/ \E q \in Procs \ {p} : cyc[q].pc \notin {"idle", "done"}]
  /\ UNCHANGED << table, sent, now, debounce_threshold,
                  confirmation_delay_seconds, fresh, sustained >>
  /\ UNCHANGED engineVars

NextOverlap ==
  \E p \in Procs :
    \/ InvokeOverlapping(p)
    \/ LoadState(p, TRUE)
    \/ \E online \in Bool : QueryDevice(p, online)
    \/ Process(p)
    \/ Notify(p, TRUE)
    \/ Save(p, TRUE)

SpecOverlap == InitCycle /\ [][NextOverlap]_vars

\* ------------------------------------------------------------ properties
\* TRUE iff the latest call changed last_confirmed_online from one boolean
\* to the opposite boolean
Flipped ==
  /\ prev_state.last_confirmed_online \in Bool
  /\ state.last_confirmed_online \in Bool
  /\ state.last_confirmed_online # prev_state.last_confirmed_online

\* C1: glitch rejection. Counting from a state whose observed value equals its
\* boolean confirmed value, as long as fewer than debounce_threshold contrary
\* observations have been fed, no call (the contrary ones and the reverting
\* one) changes last_confirmed_online or returns should_notify, for any delay.
C1_GlitchRejection ==
  (called /\ gBase # None /\ gRun < debounce_threshold)
    => (state.last_confirmed_online = gBase /\ ~should_notify)

\* C1 witness: the reverting call after threshold - 1 >= 1 contrary
\* observations, with a positive confirmation delay
C1_Witness ==
  /\ called /\ gBase # None
  /\ gRun >= 1 /\ gRun = debounce_threshold - 1
  /\ current_online = gBase
  /\ prev_state.last_observed_online # gBase
  /\ confirmation_delay_seconds > 0

\* C2: a call whose prev_state has last_confirmed_online unknown never
\* notifies; from a fresh state the confirmed value is known exactly once some
\* run of equal observations has reached the threshold, and the call that makes
\* it known is the one whose trailing run has length exactly the threshold.
C2_BaselineNeverNotifies ==
  called =>
    /\ prev_state.last_confirmed_online = None => ~should_notify
    /\ fresh => ((state.last_confirmed_online # None) <=> reached)
    /\ (fresh /\ prev_state.last_confirmed_online = None
              /\ state.last_confirmed_online # None)
         => (trail = debounce_threshold /\ state.last_confirmed_online = current_online)

\* C2 witness: the baseline is established from a fresh state with threshold >= 2
C2_Witness ==
  /\ called /\ fresh /\ debounce_threshold >= 2
  /\ prev_state.last_confirmed_online = None
  /\ state.last_confirmed_online # None

\* C3: with no confirmation delay, counting from a state whose observed value
\* equals its confirmed value, a call notifies and flips the confirmed value
\* exactly when its observation is the threshold-th consecutive contrary one.
C3_ConfirmExactlyAtThreshold ==
  (called /\ confirmation_delay_seconds = 0 /\ gBase # None)
    => /\ should_notify <=> (current_online # gBase /\ gRun = debounce_threshold)
       /\ Flipped <=> (current_online # gBase /\ gRun = debounce_threshold)

\* C3 witness: a change confirmed without delay at threshold >= 2
C3_Witness ==
  /\ called /\ confirmation_delay_seconds = 0 /\ gBase # None
  /\ debounce_threshold >= 2 /\ gRun = debounce_threshold
  /\ should_notify /\ Flipped

\* C4: should_notify is returned exactly by the calls that flip
\* last_confirmed_online between the two booleans.
C4_NotifyIffFlip == called => (should_notify <=> Flipped)

\* C4 witness: a flip reported after a positive confirmation delay
C4_Witness ==
  called /\ should_notify /\ Flipped /\ confirmation_delay_seconds > 0

\* C5: with a positive delay, an observation equal to the confirmed value
\* arriving while a candidate is pending cancels it: pending_change_since is
\* unset, last_confirmed_online is unchanged and should_notify is false.
C5_ReversionCancelsPending ==
  (called /\ confirmation_delay_seconds > 0
          /\ prev_state.pending_change_since # NoTs
          /\ current_online = prev_state.last_confirmed_online)
    => /\ state.pending_change_since = NoTs
       /\ state.last_confirmed_online = prev_state.last_confirmed_online
       /\ ~should_notify

\* C5 witness: a pending candidate met by a reverting observation
C5_Witness ==
  /\ called /\ confirmation_delay_seconds > 0
  /\ prev_state.pending_change_since # NoTs
  /\ current_online = prev_state.last_confirmed_online

\* C6: after a confirming call, every further call feeding the same observation
\* leaves last_confirmed_online, last_change_ts and last_message_ts unchanged
\* and returns should_notify = false.
C6_IdempotentAfterConfirm ==
  since_confirm >= 1
    => /\ ~should_notify
       /\ state.last_confirmed_online = prev_state.last_confirmed_online
       /\ state.last_change_ts = prev_state.last_change_ts
       /\ state.last_message_ts = prev_state.last_message_ts

\* C6 witness: three repetitions of the observation after a confirmed change
C6_Witness ==
  since_confirm = 3 /\ state.last_message_ts # NoTs /\ now > state.last_change_ts

\* C7: from a fresh state, streak never exceeds debounce_threshold + 1.
C7_StreakCapped == state.streak <= debounce_threshold + 1

\* C7 witness: the cap is reached
C7_Witness == called /\ state.streak = debounce_threshold + 1

\* C8 as stated: pending_change_since is set only for a candidate, and is unset
\* after every confirming call and after every call whose observation differs
\* from the previous observation.
C8_PendingAsStated ==
  called =>
    /\ state.pending_change_since # NoTs
         => /\ state.last_confirmed_online \in Bool
            /\ state.last_observed_online # state.last_confirmed_online
            /\ state.streak >= debounce_threshold
    /\ Flipped => state.pending_change_since = NoTs
    /\ current_online # prev_state.last_observed_online
         => state.pending_change_since = NoTs

\* C8 amended: as stated, except that a call whose observation differs from the
\* previous one may itself open a candidate (debounce_threshold = 1, positive
\* delay), in which case pending_change_since is that call's own clock value.
C8_PendingAmended ==
  called =>
    /\ state.pending_change_since # NoTs
         => /\ state.last_confirmed_online \in Bool
            /\ state.last_observed_online # state.last_confirmed_online
            /\ state.streak >= debounce_threshold
    /\ Flipped => state.pending_change_since = NoTs
    /\ current_online # prev_state.last_observed_online
         => \/ state.pending_change_since = NoTs
            \/ /\ debounce_threshold = 1
               /\ confirmation_delay_seconds > 0
               /\ current_online # state.last_confirmed_online
               /\ state.pending_change_since = now

\* C8 witness: a changed observation opens a candidate in the same call
C8_Witness ==
  /\ called
  /\ current_online # prev_state.last_observed_online
  /\ state.pending_change_since # NoTs
  /\ prev_state.pending_change_since = NoTs

\* C9: a call whose prev_state has a boolean last_confirmed_online returns a
\* state with a boolean last_confirmed_online.
C9_ConfirmedStaysKnown ==
  (called /\ prev_state.last_confirmed_online # None)
    => state.last_confirmed_online \in Bool

\* C9 witness: a known confirmed value is replaced by the opposite boolean
C9_Witness == called /\ Flipped

\* TRUE iff step name n occurs in the sequence of steps q
Did(q, n) == \E i \in 1..Len(q) : q[i] = n

\* C10: a cycle whose get_device_online_status raised has ended with
\* statusCode 500 without running the engine, without sending a message and
\* without calling save_state, and the table is as it was when the cycle began.
C10_TuyaFailureAborts ==
  \A p \in Procs :
    cyc[p].tuya_raised
      => /\ cyc[p].pc = "done"
         /\ cyc[p].statusCode = 500
         /\ ~Did(cyc[p].steps, "process_state_change")
         /\ ~Did(cyc[p].steps, "send_message")
         /\ ~Did(cyc[p].steps, "save_state")
         /\ table = cyc[p].table_before

\* C10 witness: the query fails in a cycle that loaded a persisted state
C10_Witness ==
  /\ cyc[1].tuya_raised
  /\ table # {}
  /\ cyc[1].prev_state.last_confirmed_online # None

\* C11: a cycle whose state-change notification raised goes on to save_state:
\* it passes the engine's new state (holding the newly confirmed value) with
\* notify_failed = True added, reports notification_sent = false, and returns
\* statusCode 200 with that item stored when the write itself succeeds.
C11_NotifyFailureStillSaves ==
  \A p \in Procs :
    cyc[p].notify_raised
      => /\ cyc[p].pc \in {"save", "done"}
         /\ cyc[p].should_notify
         /\ ~cyc[p].notification_sent
         /\ cyc[p].pc = "done"
              => /\ Did(cyc[p].steps, "save_state")
                 /\ cyc[p].saved_arg = [notify_failed |-> "True"] @@ cyc[p].engine_output
                 /\ cyc[p].saved_arg.last_confirmed_online = cyc[p].device_online
                 /\ cyc[p].saved_arg.last_confirmed_online
                      # cyc[p].engine_input.last_confirmed_online
                 /\ ~cyc[p].save_raised
                      => /\ cyc[p].statusCode = 200
                         /\ table # {}
                         /\ \A i \in table :
                              /\ i.notify_failed = "True"
                              /\ i.last_confirmed_online = cyc[p].device_online

\* C11 witness: the notification failed and the flagged state was stored
C11_Witness ==
  /\ cyc[1].notify_raised
  /\ cyc[1].pc = "done"
  /\ cyc[1].statusCode = 200
  /\ \E i \in table : i.notify_failed = "True"

\* C12: a cycle that loaded the state flagged by a failed notification, and
\* whose observation and store operations succeeded, has run the engine,
\* saved a state and returned statusCode 200.
C12_AdvancesAfterNotifyFailure ==
  \A p \in Procs :
    (/\ cyc[p].pc = "done"
     /\ cyc[p].read_outcome = "item"
     /\ "notify_failed" \in DOMAIN cyc[p].prev_state
     /\ ~cyc[p].tuya_raised
     /\ ~cyc[p].save_raised)
      => /\ Did(cyc[p].steps, "process_state_change")
         /\ Did(cyc[p].steps, "save_state")
         /\ cyc[p].statusCode = 200

\* C13: when get_item raises or finds no item, load_state returns the
\* zero-value default; the engine then runs on the all-default DebounceState
\* and, if the observation and the write succeed, its result is stored and the
\* cycle returns statusCode 200.
C13_ReadFailureDegradesToDefault ==
  \A p \in Procs :
    cyc[p].read_outcome \in {"absent", "error"}
      => /\ cyc[p].prev_state =
              [ last_confirmed_online |-> "None", last_observed_online |-> "None",
                streak |-> 0, last_change_ts |-> -1, last_message_ts |-> -1 ]
         /\ Did(cyc[p].steps, "process_state_change")
              => /\ cyc[p].engine_input.last_confirmed_online = "None"
                 /\ cyc[p].engine_input.last_observed_online = "None"
                 /\ cyc[p].engine_input.streak = 0
                 /\ \A k \in TsKeys : cyc[p].engine_input[k] = -1
         /\ (cyc[p].pc = "done" /\ ~cyc[p].tuya_raised /\ ~cyc[p].save_raised)
              => /\ cyc[p].statusCode = 200
                 /\ Did(cyc[p].steps, "process_state_change")
                 /\ Did(cyc[p].steps, "save_state")
                 /\ table # {}
                 /\ \A i \in table :
                      /\ i.last_observed_online = cyc[p].device_online
                      /\ i.streak = 1
                      /\ i.last_confirmed_online =
                           IF debounce_threshold = 1 THEN cyc[p].device_online
                                                     ELSE "None"

\* C13 witness: the read raised although a confirmed state was stored, and the
\* cycle stored the engine's result for the default state
C13_Witness ==
  /\ cyc[1].read_outcome = "error"
  /\ \E i \in cyc[1].table_before : i.last_confirmed_online # "None"
  /\ cyc[1].pc = "done"
  /\ cyc[1].statusCode = 200

\* C14: a cycle whose save_state raised has ended with statusCode 500 and the
\* table is as it was when the cycle began.
C14_SaveFailureIsHard ==
  \A p \in Procs :
    cyc[p].save_raised
      => /\ cyc[p].pc = "done"
         /\ cyc[p].statusCode = 500
         /\ table = cyc[p].table_before

\* C14 witness: the write raised in a cycle that had a stored state and a new
\* state different from it
C14_Witness ==
  /\ cyc[1].save_raised
  /\ table # {}
  /\ cyc[1].engine_output # cyc[1].engine_input

\* C15: a test invocation calls none of load_state, get_device_online_status,
\* process_state_change and save_state, leaves the table unchanged, makes
\* exactly one send_message attempt and returns 200 if it succeeded, 500 if not.
C15_TestInvocationOnlyNotifies ==
  \A p \in Procs :
    cyc[p].test
      => /\ table = cyc[p].table_before
         /\ \A i \in 1..Len(cyc[p].steps) : cyc[p].steps[i] = "send_message"
         /\ cyc[p].pc \in {"test", "done"}
         /\ cyc[p].pc = "test" => cyc[p].steps = << >>
         /\ cyc[p].pc = "done"
              => /\ cyc[p].steps = << "send_message" >>
                 /\ cyc[p].statusCode = IF cyc[p].send_raised THEN 500 ELSE 200

\* C15 witness: a failed test send with a state stored in the table
C15_Witness ==
  /\ cyc[1].test /\ cyc[1].pc = "done" /\ cyc[1].send_raised
  /\ table # {}

\* TRUE iff sequence a is a prefix of sequence b
IsPrefix(a, b) == Len(a) <= Len(b) /\ \A i \in 1..Len(a) : a[i] = b[i]

\* C20: the calls of a non-test cycle form a prefix of load_state,
\* get_device_online_status, process_state_change, send_message (present iff
\* should_notify), save_state; so save_state is called at most once and only
\* after the notification attempt.
C20_StepOrder ==
  \A p \in Procs :
    ~cyc[p].test
      => /\ IsPrefix(cyc[p].steps,
                     IF cyc[p].should_notify
                     THEN << "load_state", "get_device_online_status",
                             "process_state_change", "send_message", "save_state" >>
                     ELSE << "load_state", "get_device_online_status",
                             "process_state_change", "save_state" >>)
         /\ cyc[p].should_notify => Did(cyc[p].steps, "process_state_change")

\* C20 witness: a cycle that notified and then saved
C20_Witness ==
  /\ ~cyc[1].test
  /\ Len(cyc[1].steps) = 5
  /\ cyc[1].steps[4] = "send_message" /\ cyc[1].steps[5] = "save_state"

\* C16: in a sustained run (from a confirmed state, every observation opposite
\* to the confirmed value, the clock strictly advancing) some call eventually
\* returns should_notify with last_confirmed_online equal to the fed value.
C16_SustainedChangeConfirmed ==
  <>(called /\ should_notify /\ state.last_confirmed_online = sustained)

\* C16 witness: the sustained value is confirmed at the largest threshold after
\* a positive delay
C16_Witness ==
  /\ called /\ should_notify /\ sustained # None
  /\ state.last_confirmed_online = sustained
  /\ debounce_threshold >= 2 /\ confirmation_delay_seconds > 0
  /\ prev_state.pending_change_since > 0

\* C17: a candidate never outlives a reversion.  pending_change_since, when
\* set, is the clock of the call at which the current run of equal (contrary)
\* observations reached the threshold; a change is confirmed only in a run of
\* at least debounce_threshold observations and only when the delay has
\* elapsed since that call; the reverting call leaves pending_change_since unset.
C17_ReversionFullyCancels ==
  called =>
    /\ state.pending_change_since # NoTs
         => /\ trail >= debounce_threshold
            /\ state.pending_change_since = thr_ts
            /\ current_online # state.last_confirmed_online
    /\ Flipped
         => /\ trail >= debounce_threshold
            /\ thr_ts # NoTs
            /\ now - thr_ts >= confirmation_delay_seconds
    /\ (prev_state.pending_change_since # NoTs
          /\ current_online # prev_state.last_observed_online)
         => state.pending_change_since = NoTs

\* C17 witness: after a cancelled candidate the contrary value recurs and is
\* confirmed on a later stamp
C17_Witness ==
  /\ called /\ Flipped
  /\ confirmation_delay_seconds > 0 /\ debounce_threshold >= 2
  /\ cancelled_pcs # NoTs
  /\ thr_ts > cancelled_pcs
  /\ prev_state.pending_change_since = thr_ts

\* C18: with a positive delay, the threshold-th consecutive contrary
\* observation stamps pending_change_since = now without confirming; each
\* later contrary observation confirms and notifies if now minus the stamp
\* is at least the delay, and otherwise keeps the stamp and does not notify.
C18_PendingUntilDelay ==
  (called /\ confirmation_delay_seconds > 0 /\ gBase # None
          /\ current_online # gBase)
    => /\ gRun = debounce_threshold
            => /\ state.pending_change_since = now
               /\ ~should_notify
               /\ state.last_confirmed_online = gBase
       /\ gRun > debounce_threshold
            => /\ prev_state.pending_change_since # NoTs
               /\ IF now - prev_state.pending_change_since >= confirmation_delay_seconds
                  THEN /\ should_notify
                       /\ state.last_confirmed_online = current_online
                       /\ state.pending_change_since = NoTs
                  ELSE /\ ~should_notify
                       /\ state.last_confirmed_online = gBase
                       /\ state.pending_change_since = prev_state.pending_change_since

\* C18 witness: a pending candidate is confirmed exactly when the delay is met
C18_Witness ==
  /\ called /\ confirmation_delay_seconds > 0 /\ gBase # None
  /\ gRun > debounce_threshold /\ debounce_threshold >= 2
  /\ should_notify
  /\ now - prev_state.pending_change_since = confirmation_delay_seconds

\* C21: from a fresh state, the call in which the run of equal observations
\* reaches the threshold while last_confirmed_online is unknown sets
\* last_confirmed_online to the observation and last_change_ts to now, whatever
\* the delay; pending_change_since stays unset, last_message_ts is unchanged.
C21_InitialIgnoresDelay ==
  (called /\ prev_state.last_confirmed_online = "None"
          /\ trail >= debounce_threshold)
    => /\ state.last_confirmed_online = current_online
       /\ state.last_observed_online = current_online
       /\ state.last_change_ts = now
       /\ state.pending_change_since = -1
       /\ state.last_message_ts = prev_state.last_message_ts
       /\ ~should_notify

\* C21 witness: the baseline is set at once although the delay is positive
C21_Witness ==
  /\ called /\ prev_state.last_confirmed_online = "None"
  /\ trail >= debounce_threshold /\ debounce_threshold >= 2
  /\ confirmation_delay_seconds > 0 /\ now > 0

\* C22: the summary has the three fields confirmed, observed, streak; true is
\* rendered ON, false OFF and unknown UNKNOWN, so the label determines the value.
C22_SummaryLabels ==
  LET Expected(b) == CASE b = "True" -> "ON" [] b = "False" -> "OFF"
                       [] b = "None" -> "UNKNOWN"
  IN /\ summary = << "Confirmed: ", Expected(state.last_confirmed_online),
                     ", Observed: ", Expected(state.last_observed_online),
                     ", Streak: ", state.streak >>
     /\ \A a, b \in {"True", "False", "None"} : Label(a) = Label(b) => a = b

\* C22 witness: a summary with an unknown confirmed value and a known observation
C22_Witness ==
  /\ called /\ state.last_confirmed_online = "None"
  /\ state.last_observed_online = "False"
  /\ summary[2] = "UNKNOWN" /\ summary[4] = "OFF"

\* C25: from a fresh state, streak = min(L, debounce_threshold + 1) where L is
\* the length of the trailing run of equal observations, and
\* last_observed_online is the latest observation.
C25_StreakIsTrailingRun ==
  called =>
    /\ state.streak = IF trail <= debounce_threshold + 1
                      THEN trail ELSE debounce_threshold + 1
    /\ state.last_observed_online = current_online

\* C25 witness: a run longer than the cap
C25_Witness ==
  called /\ trail > debounce_threshold + 1 /\ state.streak = debounce_threshold + 1

\* C26: an observation different from prev_state.last_observed_online sets
\* last_observed_online to it, streak to 1 and first_observed_change_ts to now;
\* an equal observation leaves last_observed_online and
\* first_observed_change_ts unchanged.
C26_ResetOnChange ==
  called =>
    IF current_online # prev_state.last_observed_online
    THEN /\ state.last_observed_online = current_online
         /\ state.streak = 1
         /\ state.first_observed_change_ts = now
    ELSE /\ state.last_observed_online = prev_state.last_observed_online
         /\ state.first_observed_change_ts = prev_state.first_observed_change_ts

\* C26 witness: the reset happens from a streak above the cap
C26_Witness ==
  /\ called /\ current_online # prev_state.last_observed_online
  /\ prev_state.last_observed_online # "None"
  /\ prev_state.streak > debounce_threshold + 1
  /\ state.streak = 1 /\ now > 0

\* C27: a call that confirms a change returns should_notify with
\* last_confirmed_online = last_observed_online = the observation,
\* last_change_ts = last_message_ts = now and pending_change_since unset;
\* streak and first_observed_change_ts are those of the observation tracking.
C27_ConfirmAssignments ==
  (called /\ Flipped)
    => /\ should_notify
       /\ state.last_confirmed_online = current_online
       /\ state.last_observed_online = current_online
       /\ state.last_change_ts = now
       /\ state.last_message_ts = now
       /\ state.pending_change_since = -1
       /\ IF current_online = prev_state.last_observed_online
          THEN /\ state.streak = IF prev_state.streak + 1 <= debounce_threshold + 1
                                 THEN prev_state.streak + 1
                                 ELSE debounce_threshold + 1
               /\ state.first_observed_change_ts = prev_state.first_observed_change_ts
          ELSE /\ state.streak = 1
               /\ state.first_observed_change_ts = now

\* C27 witness: a change confirmed after a pending period, later than it was
\* first observed
C27_Witness ==
  /\ called /\ Flipped /\ prev_state.pending_change_since # -1
  /\ now > state.first_observed_change_ts
  /\ state.first_observed_change_ts > 0

\* C28: a call that leaves last_confirmed_online as it was (no confirmation)
\* returns should_notify = false and leaves last_change_ts and last_message_ts
\* as they were.
C28_NoConfirmationFrame ==
  (called /\ state.last_confirmed_online = prev_state.last_confirmed_online)
    => /\ ~should_notify
       /\ state.last_change_ts = prev_state.last_change_ts
       /\ state.last_message_ts = prev_state.last_message_ts

\* C28 witness: a pending candidate that is not yet confirmed, at a later clock
C28_Witness ==
  /\ called /\ state.last_confirmed_online = prev_state.last_confirmed_online
  /\ state.pending_change_since # -1
  /\ now > state.pending_change_since
  /\ state.last_change_ts # -1 /\ now > state.last_change_ts

\* The state with online and offline exchanged
Negated(s) ==
  [s EXCEPT !.last_confirmed_online = IF @ = "None" THEN @ ELSE Opposite(@),
            !.last_observed_online  = IF @ = "None" THEN @ ELSE Opposite(@)]

\* C29: exchanging online and offline in prev_state and in the observation
\* exchanges them in the returned state and changes nothing else: same streak,
\* same timestamps, same should_notify.
C29_OnlineOfflineSymmetry ==
  called =>
    LET r == process_state_change(Negated(prev_state), Opposite(current_online),
                                  debounce_threshold, confirmation_delay_seconds, now)
    IN /\ r.new_state = Negated(state)
       /\ r.should_notify = should_notify

\* C29 witness: a notified change to online (its mirror image is a change to offline)
C29_Witness ==
  called /\ should_notify /\ state.last_confirmed_online = "True"

\* C23: within one sustained run of equal observations the sequential cycles
\* deliver at most one state-change message, also when save_state fails.
C23_AtMostOneSendPerChange == hist.sends <= 1

\* C24: the persisted last_confirmed_online never goes from one boolean to the
\* opposite one (directly or through unknown) without a send_message attempt
\* in a cycle in between, read failures included.
C24_NoSilentChange == hist.flip \in {"none", "notified"}

\* Without a failed read there is no such change: a change of the persisted
\* last_confirmed_online that no send_message attempt preceded has a cycle whose
\* get_item raised before it
SilentChangeOnlyAfterReadError == hist.flip # "silent"

\* C30: after a successful save_state of the blob the cycle saves, load_state
\* returns a mapping from which DebounceState(**loaded) can be built and which
\* equals, field by field, the state the engine returned.
C30_RoundTrip ==
  (cyc[1].pc = "done" /\ Did(cyc[1].steps, "save_state") /\ ~cyc[1].save_raised)
    => LET loaded == load_state(table, TRUE)
       IN /\ DOMAIN loaded \subseteq DOMAIN DebounceState
          /\ \A k \in DOMAIN cyc[1].engine_output :
               k \in DOMAIN loaded /\ loaded[k] = cyc[1].engine_output[k]

\* For the blob to_dict() returns the round trip is exact: every state the engine returns survives
\* save_state followed by load_state unchanged
RoundTripOfToDict ==
  LET loaded == load_state({PutItem(state)}, TRUE)
  IN DOMAIN loaded = DOMAIN DebounceState /\ FromDict(loaded) = state

\* C32: process_state_change leaves the object it was given as it was before
\* the call, and the state it returns is another object.
C32_ArgumentNotMutated ==
  called =>
    /\ heap.objs[heap.arg] = prev_state
    /\ heap.ret # heap.arg
    /\ heap.objs[heap.ret] = state

\* C32 witness: a call whose returned state differs from its argument in the
\* confirmed value and in the timestamps
C32_Witness ==
  /\ called /\ should_notify /\ now > 0
  /\ heap.objs[heap.ret].last_confirmed_online
       # heap.objs[heap.arg].last_confirmed_online
  /\ heap.objs[heap.ret].last_message_ts # heap.objs[heap.arg].last_message_ts

\* C33: from a fresh state, a call that returns should_notify = true never
\* announces the confirmed value the previous notifying call announced:
\* successive notifications alternate.
C33_NotificationsAlternate ==
  (called /\ should_notify)
    => /\ state.last_confirmed_online \in {"True", "False"}
       /\ state.last_confirmed_online # notified.prev

\* C33 witness: a notification that follows an earlier one
C33_Witness ==
  /\ called /\ should_notify
  /\ notified.prev \in {"True", "False"}
  /\ prev_state.last_message_ts # -1
  /\ state.last_confirmed_online # notified.prev

\* C34: from a fresh state, a returned state whose confirmed value is a
\* boolean, whose observed value differs from it and whose streak has reached
\* the threshold has pending_change_since set; with delay 0 there is no such
\* returned state.
C34_CandidateIsTracked ==
  LET candidate == /\ state.last_confirmed_online \in {"True", "False"}
                   /\ state.last_observed_online # state.last_confirmed_online
                   /\ state.streak >= debounce_threshold
  IN called =>
       /\ candidate => state.pending_change_since # -1
       /\ confirmation_delay_seconds = 0 => ~candidate

\* C34 witness: a tracked candidate waiting for the delay
C34_Witness ==
  /\ called /\ confirmation_delay_seconds > 0
  /\ state.last_confirmed_online \in {"True", "False"}
  /\ state.last_observed_online # state.last_confirmed_online
  /\ state.streak > debounce_threshold
  /\ state.pending_change_since # -1

\* C35: in every state reachable from a fresh state, last_change_ts is set iff
\* last_confirmed_online is a boolean, and last_message_ts is unset or equal
\* to last_change_ts.
C35_TimestampConsistency ==
  /\ (state.last_change_ts # -1) <=> (state.last_confirmed_online \in {"True", "False"})
  /\ state.last_message_ts = -1 \/ state.last_message_ts = state.last_change_ts

\* C35 witness: a notified change later than the baseline
C35_Witness ==
  /\ called /\ state.last_message_ts > 0
  /\ state.last_message_ts = state.last_change_ts
  /\ prev_state.last_change_ts = 0

\* C31: a cycle that has delivered a state-change notification has sent the
\* power-on text iff the confirmed value it changed to is true and the
\* power-off text iff it is false, and that value is the one given to save_state.
C31_MessageMatchesConfirmed ==
  cyc[1].notification_sent =>
    /\ Len(sent) >= 1
    /\ sent[Len(sent)].by = 1
    /\ cyc[1].engine_output.last_confirmed_online \in {"True", "False"}
    /\ cyc[1].engine_output.last_confirmed_online
         # cyc[1].engine_input.last_confirmed_online
    /\ (sent[Len(sent)].text = "on")
         <=> (cyc[1].engine_output.last_confirmed_online = "True")
    /\ (sent[Len(sent)].text = "off")
         <=> (cyc[1].engine_output.last_confirmed_online = "False")
    /\ Did(cyc[1].steps, "save_state")
         => cyc[1].saved_arg.last_confirmed_online
              = cyc[1].engine_output.last_confirmed_online

\* C31 witness: a cycle that announced power-on and saved
C31_Witness ==
  /\ cyc[1].notification_sent /\ cyc[1].pc = "done" /\ ~cyc[1].save_raised
  /\ sent[Len(sent)].text = "on"
  /\ \E i \in table : i.last_confirmed_online = "True"

\* C36: no persisted state has pending_change_since set, and a cycle whose
\* observation is the debounce_count-th consecutive one contrary to the
\* persisted confirmed value calls send_message.
C36_NoDelayInCycle ==
  /\ \A i \in table : i.pending_change_since = -1
  /\ (/\ cyc[1].pc \in {"save", "done"}
      /\ Did(cyc[1].steps, "get_device_online_status")
      /\ ~cyc[1].tuya_raised)
       => \A i \in cyc[1].table_before :
            (/\ i.last_confirmed_online \in {"True", "False"}
             /\ cyc[1].device_online # i.last_confirmed_online
             /\ (IF cyc[1].device_online = i.last_observed_online
                 THEN i.streak + 1 ELSE 1) >= debounce_threshold)
              => Did(cyc[1].steps, "send_message")

\* C37: two invocations that loaded the same state and observed the same value
\* completing a candidate have each delivered the notification, and the table
\* holds what the later put_item stored; as long as no invocation has started
\* while another was in flight, one observation run has at most one delivery.
C37_NoMutualExclusion ==
  /\ ~hist.overlapped => hist.sends <= 1
  /\ \A p \in Procs : \A q \in Procs \ {p} :
       (/\ cyc[p].pc = "done" /\ cyc[q].pc = "done"
        /\ Did(cyc[p].steps, "save_state") /\ Did(cyc[q].steps, "save_state")
        /\ cyc[p].read_outcome = "item" /\ cyc[q].read_outcome = "item"
        /\ cyc[p].prev_state = cyc[q].prev_state
        /\ cyc[p].device_online = cyc[q].device_online
        /\ cyc[p].should_notify)
         => /\ cyc[q].should_notify
            /\ cyc[p].notification_sent /\ cyc[q].notification_sent
            /\ \E i, j \in 1..Len(sent) :
                 /\ i # j /\ sent[i].by = p /\ sent[j].by = q
                 /\ sent[i].text = sent[j].text
            /\ hist.last_saver \in {p, q}
            /\ \A it \in table :
                 /\ it.last_confirmed_online
                      = cyc[hist.last_saver].saved_arg.last_confirmed_online
                 /\ it.streak = cyc[hist.last_saver].saved_arg.streak

\* C37 witness: two overlapping invocations have delivered the notification
\* of one change
C37_Witness ==
  /\ hist.overlapped /\ hist.sends = 2
  /\ cyc[1].pc = "done" /\ cyc[2].pc = "done"
  /\ cyc[1].read_outcome = "item"
  /\ cyc[1].prev_state = cyc[2].prev_state
  /\ cyc[1].notification_sent /\ cyc[2].notification_sent
  /\ Len(sent) = 2 /\ sent[1].text = sent[2].text /\ sent[1].by # sent[2].by

\* C38: with a working store and notifier, between cycles the persisted
\* confirmed value, observed value and streak are those of the engine applied
\* to the successful observations only.
C38_FailedPollTransparent ==
  (~hist.fault /\ cyc[1].pc \in {"idle", "done"})
    => /\ table = {} =>
            /\ hist.shadow.last_confirmed_online = "None"
            /\ hist.shadow.last_observed_online = "None"
            /\ hist.shadow.streak = 0
       /\ \A i \in table :
            /\ i.last_confirmed_online = hist.shadow.last_confirmed_online
            /\ i.last_observed_online = hist.shadow.last_observed_online
            /\ i.streak = hist.shadow.streak

\* C38 witness: a failed poll has left a persisted streak in progress as it was
C38_Witness ==
  /\ ~hist.fault /\ cyc[1].pc = "done" /\ cyc[1].tuya_raised
  /\ \E i \in table : /\ i.streak = 1 /\ debounce_threshold > 1
                      /\ i.last_confirmed_online \in {"True", "False"}
                      /\ i.last_observed_online # i.last_confirmed_online
  /\ table = cyc[1].table_before

====
